---- MODULE Spec2Model ----
(***************************************************************************)
(* Model of src/src/tui.rs: the terminal session (Tui), its background     *)
(* event pump (the task spawned by Tui::start) and the unbounded event     *)
(* channel between them, the destruction of the session (Drop for Tui),    *)
(* and the facade TuiEnum over the session or its inert stand-in TestTui.  *)
(*                                                                         *)
(* The caller (the thread that owns the Tui) runs one operation at a time. *)
(* Every operation is one atomic action, except Tui::stop: its polling     *)
(* loop sleeps between polls, and the pump tasks run during those sleeps,  *)
(* so each iteration of the loop is an action of its own.  The pump tasks  *)
(* run concurrently with the caller; one action is one pass of the pump    *)
(* through its select!.  tokio::select! polls its branches starting from a *)
(* random one, so every ready branch may be the one taken.  The timers and *)
(* the raw input are the environment: a timer may have elapsed at any wait *)
(* point, which covers every tick and frame rate.                          *)
(***************************************************************************)
EXTENDS Integers, Sequences, FiniteSets, TLC

\* ------------------------------------------------------------------ bounds

\* How many times start() may run, so task ids are 0..MaxPumps (0 is the
\* placeholder task of Tui::new).
MaxPumps == 2

\* How many events may be sent into the (unbounded) channel in one run.
MaxSent == 3

\* How many raw input items may be pending in the terminal's input stream.
MaxInput == 1

\* ------------------------------------------------------- program constants

\* stop(): `if counter > 50 { self.task.abort() }`
GraceLimit == 50

\* stop(): `if counter > 100 { ...; break }`
GiveUpLimit == 100

\* Tui::new: tick_rate = 4.0, frame_rate = 60.0
DefaultTickRate == 4

DefaultFrameRate == 60

\* A rate (f64, events per second) m * 10^e, m an integer.
Rate(m, e) == [m |-> m, e |-> e]

\* Positive rates at the two ends of the range: 1e-20 and 1e12.
TinyRate == Rate(1, -20)

HugeRate == Rate(1, 12)

\* The rates the builders are called with in the pump specification.
Rates == {Rate(DefaultTickRate, 0), Rate(DefaultFrameRate, 0)}

\* The rates the builders are called with where the periods matter: the
\* default, and for the ticks one too small to have a period, for the frames
\* one whose period is zero.
TickRates == {Rate(DefaultTickRate, 0), TinyRate}

FrameRates == {Rate(DefaultFrameRate, 0), HugeRate}

\* Duration::from_secs_f64(1.0 / rate) panics: the quotient is not finite
\* (rate 0), negative, or 2^64 seconds or more, which is rate <= 2^-64
\* = 5.42101086...e-20.
DurationOverflows(r) ==
    \/ r.m <= 0
    \/ r.e < -28
    \/ r.e <= -20 /\ r.m <= 542101086 \div 10 ^ (r.e + 28)

\* The Duration of 1.0 / rate seconds is rounded to whole nanoseconds and
\* comes out as zero: 10^9 / rate < 0.5, which is rate > 2 * 10^9.
ZeroPeriod(r) ==
    /\ r.m > 0
    /\ r.e >= 0
    /\ r.e >= 10 \/ r.m > 2000000000 \div 10 ^ r.e

\* ------------------------------------------------------------------ events

\* enum Event.  data carries the payload of the variant.
Ev(t, d) == [type |-> t, data |-> d]

EvInit == Ev("Init", <<>>)

EvError == Ev("Error", <<>>)

EvTick == Ev("Tick", <<>>)

EvRender == Ev("Render", <<>>)

\* crossterm's Event, as delivered by EventStream::next(): Some(Ok(evt)),
\* Some(Err(_)) (type "Err") or None (type "End").  kind is the KeyEventKind
\* of a key event and "-" for everything else.
Raw(t, k, d) == [type |-> t, kind |-> k, data |-> d]

RawErr == Raw("Err", "-", <<>>)

RawEnd == Raw("End", "-", <<>>)

RawKeyPress == Raw("Key", "Press", <<"a">>)

RawKeyRelease == Raw("Key", "Release", <<"a">>)

\* The raw input of the lifecycle specifications.
FewInputs == {RawErr}

\* The raw input of the input specification: every variant, every key kind.
AllInputs ==
    {RawKeyPress, RawKeyRelease, Raw("Key", "Repeat", <<"a">>),
     Raw("Mouse", "-", <<"down">>), Raw("Resize", "-", <<80, 25>>),
     Raw("FocusLost", "-", <<>>), Raw("FocusGained", "-", <<>>),
     Raw("Paste", "-", <<"text">>), RawErr, RawEnd}

\* The match without its `if key.kind == KeyEventKind::Press`.
MapEventAnyKind(raw) ==
    CASE raw.type \in {"Key", "Mouse", "Resize", "Paste"} ->
           <<Ev(raw.type, raw.data)>>
      [] raw.type \in {"FocusLost", "FocusGained"} -> <<Ev(raw.type, <<>>)>>
      [] raw.type = "Err" -> <<EvError>>
      [] raw.type = "End" -> <<>>

\* The match of the crossterm_event branch: the events sent for one item.
MapEvent(raw) ==
    CASE raw.type = "Key" ->
           IF raw.kind = "Press" THEN <<Ev("Key", raw.data)>> ELSE <<>>
      [] raw.type = "Mouse" -> <<Ev("Mouse", raw.data)>>
      [] raw.type = "Resize" -> <<Ev("Resize", raw.data)>>
      [] raw.type = "FocusLost" -> <<Ev("FocusLost", <<>>)>>
      [] raw.type = "FocusGained" -> <<Ev("FocusGained", <<>>)>>
      [] raw.type = "Paste" -> <<Ev("Paste", raw.data)>>
      [] raw.type = "Err" -> <<EvError>>
      [] raw.type = "End" -> <<>>

\* ---------------------------------------------------------------- terminal

\* The terminal's mode, as the mode calls of crossterm leave it.  raw is
\* crossterm's own record of raw mode, which is_raw_mode_enabled() reads.
OriginalMode ==
    [raw |-> FALSE, alt |-> FALSE, cursor_hidden |-> FALSE,
     mouse_capture |-> FALSE, bracketed_paste |-> FALSE]

\* The effect of one successful mode call.
Apply(t, call) ==
    CASE call = "enable_raw_mode" -> [t EXCEPT !.raw = TRUE]
      [] call = "EnterAlternateScreen" -> [t EXCEPT !.alt = TRUE]
      [] call = "Hide" -> [t EXCEPT !.cursor_hidden = TRUE]
      [] call = "EnableMouseCapture" -> [t EXCEPT !.mouse_capture = TRUE]
      [] call = "EnableBracketedPaste" -> [t EXCEPT !.bracketed_paste = TRUE]
      [] call = "flush" -> t
      [] call = "DisableBracketedPaste" -> [t EXCEPT !.bracketed_paste = FALSE]
      [] call = "DisableMouseCapture" -> [t EXCEPT !.mouse_capture = FALSE]
      [] call = "LeaveAlternateScreen" -> [t EXCEPT !.alt = FALSE]
      [] call = "Show" -> [t EXCEPT !.cursor_hidden = FALSE]
      [] call = "disable_raw_mode" -> [t EXCEPT !.raw = FALSE]

\* The terminal after the first n calls of a list have succeeded.
RECURSIVE RunCalls(_, _, _)
RunCalls(t, calls, n) ==
    IF n = 0 THEN t ELSE Apply(RunCalls(t, calls, n - 1), calls[n])

\* An enter() that enables raw mode after the screen and the captures.
EnterCallsRawLast(m, p) ==
    <<"EnterAlternateScreen", "Hide">>
      \o (IF m THEN <<"EnableMouseCapture">> ELSE <<>>)
      \o (IF p THEN <<"EnableBracketedPaste">> ELSE <<>>)
      \o <<"enable_raw_mode">>

\* An enter() that enables both captures whatever the flags say.
EnterCallsCaptureAlways(m, p) ==
    <<"enable_raw_mode", "EnterAlternateScreen", "Hide",
      "EnableMouseCapture", "EnableBracketedPaste">>

\* enter(): the mode calls, in the order the code issues them.
EnterCalls(m, p) ==
    <<"enable_raw_mode", "EnterAlternateScreen", "Hide">>
      \o (IF m THEN <<"EnableMouseCapture">> ELSE <<>>)
      \o (IF p THEN <<"EnableBracketedPaste">> ELSE <<>>)

\* An exit() that leaves raw mode before it restores the rest.
ExitCallsRawFirst(raw, m, p) ==
    IF raw
    THEN <<"flush", "disable_raw_mode">>
           \o (IF p THEN <<"DisableBracketedPaste">> ELSE <<>>)
           \o (IF m THEN <<"DisableMouseCapture">> ELSE <<>>)
           \o <<"LeaveAlternateScreen", "Show">>
    ELSE <<>>

\* exit() without its is_raw_mode_enabled() test.
ExitCallsUnguarded(raw, m, p) ==
    <<"flush">>
      \o (IF p THEN <<"DisableBracketedPaste">> ELSE <<>>)
      \o (IF m THEN <<"DisableMouseCapture">> ELSE <<>>)
      \o <<"LeaveAlternateScreen", "Show", "disable_raw_mode">>

\* exit(): the mode calls after stop(), in the order the code issues them,
\* given what is_raw_mode_enabled() answered.
ExitCalls(raw, m, p) ==
    IF raw
    THEN <<"flush">>
           \o (IF p THEN <<"DisableBracketedPaste">> ELSE <<>>)
           \o (IF m THEN <<"DisableMouseCapture">> ELSE <<>>)
           \o <<"LeaveAlternateScreen", "Show", "disable_raw_mode">>
    ELSE <<>>

\* A list of calls chained with `?`: call f fails (0: none does).  The calls
\* before it took effect, the failing one did not, the later ones never run.
Issued(calls, f) == IF f = 0 THEN calls ELSE SubSeq(calls, 1, f)

Effect(t, calls, f) ==
    RunCalls(t, calls, IF f = 0 THEN Len(calls) ELSE f - 1)

\* ------------------------------------------------------------------- state

VARIABLES
    mouse,               \* Tui.mouse
    paste,               \* Tui.paste
    tick_rate,           \* Tui.tick_rate
    frame_rate,          \* Tui.frame_rate
    term,                \* the terminal's mode
    hidden_cursor,       \* Terminal.hidden_cursor: the Terminal hid the cursor
    task,                \* Tui.task: the id of the task the handle names
    cancellation_token,  \* Tui.cancellation_token: the id of the token
    cancelled,           \* the tokens that have been raised
    tasks,               \* every task spawned so far: [pc, token, aborted,
                         \* timers (both periods are above zero)]
    event_queue,         \* the channel event_tx -> event_rx
    nsent,               \* events sent so far (history)
    nrecv,               \* events received so far (history)
    input,               \* the raw input pending in the terminal
    pc,                  \* where the caller is: idle, in stop() at the test
                         \* of its loop (stop) or asleep in it (sleep), or
                         \* gone: the Tui was dropped, or its drop panicked
    op,                  \* the enter, exit, suspend, stop, drop or next the
                         \* caller is in or ran last
    counter,             \* stop(): counter (0 outside stop())
    result,              \* what the last operation returned: ok, err, closed
                         \* for the error of next(), panic (none: running)
    calls,               \* the mode calls the last enter() or exit() has issued
    fresh,               \* enter() from outside raw mode returned Ok, no next() since
    returned,            \* the send number of the event next() returned last
    sender,              \* the task that sent last (history)
    source,              \* crossterm has an input source (a terminal)
    tui,                 \* TuiEnum: the variant the facade holds
    out                  \* what next() through the facade returned last

vars ==
    <<mouse, paste, tick_rate, frame_rate, term, task, cancellation_token,
      cancelled, tasks, event_queue, nsent, nrecv, input, pc, op, counter,
      result, calls, fresh, returned, sender, source, tui, out,
      hidden_cursor>>

facade == <<tui, out, source>>

config == <<mouse, paste, tick_rate, frame_rate>>

terminal == <<term, calls, hidden_cursor>>

channel == <<event_queue, nsent, nrecv, returned, fresh, sender>>

pumps == <<task, cancellation_token, cancelled, tasks>>

caller == <<pc, op, counter, result>>

TaskIds == 0 .. MaxPumps

PumpIds == 1 .. MaxPumps

Unspawned ==
    [pc |-> "unspawned", token |-> 0, aborted |-> FALSE, timers |-> TRUE]

\* JoinHandle::is_finished: the task's future returned, the runtime dropped
\* it after an abort, or it panicked.
Finished(i) == tasks[i].pc \in {"finished", "aborted", "panicked"}

\* A task that was spawned and has not ended.
Alive(i) == tasks[i].pc \in {"spawned", "loop"}

\* The receiving end lives in the Tui (event_rx) and is dropped with it.
RxOpen == pc \notin {"dropped", "panicked"}

\* A Tui whose start() moves its sender into the task.
SessionSenderMoved == FALSE

\* The Tui keeps its own sender (event_tx), start() hands out clones: the
\* session's sender is dropped with the Tui, not before.
SessionSender == pc \notin {"dropped", "panicked"}

\* The senders of the channel: the session's, and the clone each task holds
\* until it ends.
Senders ==
    (IF SessionSender THEN 1 ELSE 0) + Cardinality({p \in PumpIds : Alive(p)})

\* Tui::new.  The placeholder task `async {}` is spawned, not yet run.
New ==
    /\ mouse = FALSE
    /\ paste = FALSE
    /\ tick_rate = Rate(DefaultTickRate, 0)
    /\ frame_rate = Rate(DefaultFrameRate, 0)
    /\ term = OriginalMode
    /\ hidden_cursor = FALSE
    /\ task = 0
    /\ cancellation_token = 0
    /\ cancelled = {}
    /\ tasks = [i \in TaskIds |->
                  IF i = 0
                  THEN [pc |-> "spawned", token |-> 0, aborted |-> FALSE,
                        timers |-> TRUE]
                  ELSE Unspawned]
    /\ event_queue = <<>>
    /\ nsent = 0
    /\ nrecv = 0
    /\ input = <<>>
    /\ pc = "idle"
    /\ op = "none"
    /\ counter = 0
    /\ result = "ok"
    /\ calls = <<>>
    /\ fresh = FALSE
    /\ returned = 0
    /\ sender = 0
    /\ tui = "Crossterm"
    /\ out = <<>>

\* The session in a process with a terminal to read input from.
Init == New /\ source = TRUE

\* The session in a process without one: EventStream::new() finds no input
\* source.
InitNoSource == New /\ source = FALSE

\* ---------------------------------------------------------------- builders

TickRate(r) ==
    /\ pc = "idle"
    /\ tick_rate' = r
    /\ UNCHANGED <<facade, mouse, paste, frame_rate, terminal, channel, pumps,
                   caller, input>>

FrameRate(r) ==
    /\ pc = "idle"
    /\ frame_rate' = r
    /\ UNCHANGED <<facade, mouse, paste, tick_rate, terminal, channel, pumps,
                   caller, input>>

Mouse(b) ==
    /\ pc = "idle"
    /\ mouse' = b
    /\ UNCHANGED <<facade, paste, tick_rate, frame_rate, terminal, channel, pumps,
                   caller, input>>

Paste(b) ==
    /\ pc = "idle"
    /\ paste' = b
    /\ UNCHANGED <<facade, mouse, tick_rate, frame_rate, terminal, channel, pumps,
                   caller, input>>

\* ------------------------------------------------------ cancel, start, stop

\* cancel(): raise the session's current token.
CancelToken == cancelled \cup {cancellation_token}

\* start() panics in its first two statements, before cancel(), when a
\* rate has no Duration.
StartPanics == DurationOverflows(tick_rate) \/ DurationOverflows(frame_rate)

\* The task start() spawns with token k: it carries the two periods, and
\* tokio::time::interval panics on a period of zero.
Spawn(k) ==
    [pc |-> "spawned", token |-> k, aborted |-> FALSE,
     timers |-> ~(ZeroPeriod(tick_rate) \/ ZeroPeriod(frame_rate))]

\* A start() that keeps the session's token and hands the new task a clone
\* of that one.
StartTaskKeepsToken ==
    IF StartPanics
    THEN UNCHANGED pumps
    ELSE /\ task < MaxPumps
         /\ cancelled' = CancelToken
         /\ cancellation_token' = cancellation_token
         /\ tasks' = [i \in TaskIds |->
                        IF i = task + 1
                        THEN Spawn(cancellation_token)
                        ELSE IF i = 0
                        THEN [tasks[0] EXCEPT !.pc = "finished"]
                        ELSE tasks[i]]
         /\ task' = task + 1

\* start(): the two periods, which may panic; then cancel(), a fresh token,
\* a clone of it and of the sender for the new task, which replaces the
\* handle.  The previous task is not joined: it is detached and runs on.
\* The detached placeholder has nothing to send and nothing left that could
\* observe it, so it is counted as finished.
StartTask ==
    IF StartPanics
    THEN UNCHANGED pumps
    ELSE /\ task < MaxPumps
         /\ cancelled' = CancelToken
         /\ cancellation_token' = task + 1
         /\ tasks' = [i \in TaskIds |->
                        IF i = task + 1
                        THEN Spawn(task + 1)
                        ELSE IF i = 0
                        THEN [tasks[0] EXCEPT !.pc = "finished"]
                        ELSE tasks[i]]
         /\ task' = task + 1

\* A direct call of the public start(): it returns, or it panics.
Start ==
    /\ pc = "idle"
    /\ StartTask
    /\ result' = (IF StartPanics THEN "panic" ELSE result)
    /\ UNCHANGED <<facade, config, terminal, channel, input, pc, op, counter>>

\* A direct call of the public cancel().
Cancel ==
    /\ pc = "idle"
    /\ cancelled' = CancelToken
    /\ UNCHANGED <<facade, config, terminal, channel, input, caller, task,
                   cancellation_token, tasks>>

\* stop(), exit() and suspend() begin alike: cancel(), counter = 0, and the
\* caller is at the test of the polling loop.
StopBegin(o) ==
    /\ pc = "idle"
    /\ cancelled' = CancelToken
    /\ counter' = 0
    /\ pc' = "stop"
    /\ op' = o
    /\ fresh' = FALSE
    /\ calls' = <<>>
    /\ result' = "none"
    /\ UNCHANGED <<facade, config, term, hidden_cursor, event_queue, nsent,
                   nrecv, returned, sender, input, task, cancellation_token,
                   tasks>>

\* The loop of stop() without its `if counter > 100 { break }`.
LoopEndedNoCeiling == tasks[task].pc \in {"finished", "aborted"}

\* The loop of stop() is over: the task is finished, or the loop broke.
LoopEnded == Finished(task) \/ counter > GiveUpLimit

\* `while !self.task.is_finished()` finds the task unfinished and the caller
\* goes to sleep for 1 ms, during which the tasks of the runtime run on.
StopSleep ==
    /\ pc = "stop"
    /\ ~LoopEnded
    /\ pc' = "sleep"
    /\ UNCHANGED <<facade, config, terminal, channel, input, pumps, op,
                   counter, result>>

\* The caller wakes up: it counts, calls abort() past the grace limit, which
\* does nothing to a task that has finished, breaks past the ceiling, and is
\* back at the test of the loop.
StopPoll ==
    /\ pc = "sleep"
    /\ counter' = counter + 1
    /\ tasks' = IF counter' > GraceLimit /\ Alive(task)
                THEN [tasks EXCEPT ![task].aborted = TRUE]
                ELSE tasks
    /\ pc' = "stop"
    /\ UNCHANGED <<facade, config, terminal, channel, input, task,
                   cancellation_token, cancelled, op, result>>

\* stop() returns Ok(()) to a direct caller once the loop has ended.
StopReturn ==
    /\ pc = "stop"
    /\ op = "stop"
    /\ LoopEnded
    /\ pc' = "idle"
    /\ counter' = 0
    /\ result' = "ok"
    /\ UNCHANGED <<facade, config, terminal, channel, input, pumps, op>>

\* ------------------------------------------------------------- enter, exit

\* enter(): the mode calls, then start().  Call f fails (0: none).  A panic
\* of start() leaves the mode calls done and the caller unwinding; the Tui
\* lives on until its owner drops it.
EnterBody(f) ==
    /\ pc = "idle"
    /\ f \in 0 .. Len(EnterCalls(mouse, paste))
    /\ term' = Effect(term, EnterCalls(mouse, paste), f)
    /\ calls' = Issued(EnterCalls(mouse, paste), f)
    /\ IF f = 0
       THEN StartTask /\ fresh' = (IF StartPanics THEN fresh ELSE ~term.raw)
       ELSE UNCHANGED <<pumps, fresh>>
    /\ op' = "enter"
    /\ result' = (IF f # 0 THEN "err" ELSE IF StartPanics THEN "panic" ELSE "ok")
    /\ UNCHANGED <<facade, config, hidden_cursor, event_queue, nsent, nrecv,
                   returned, sender, input, pc, counter>>

Enter(f) == EnterBody(f)

\* resume(): enter()?.
Resume(f) == EnterBody(f)

\* Drop for Tui: self.exit().unwrap() begins as exit() does.
Drop == StopBegin("drop")

\* Where the caller is once exit() has returned to operation o, call f
\* having failed (0: none): drop() unwraps the result, so Err panics.
AfterExit(o, f) ==
    IF o = "drop" THEN (IF f = 0 THEN "dropped" ELSE "panicked") ELSE "idle"

\* The Terminal is dropped with the Tui that owns it: if it has hidden the
\* cursor itself (in a draw) it shows it again, and ignores a failure (~s).
TerminalDropped(t, s) ==
    IF hidden_cursor /\ s THEN [t EXCEPT !.cursor_hidden = FALSE] ELSE t

\* exit() after stop(): restore the terminal if raw mode is enabled.  Call f
\* fails (0: none).  suspend() then raises SIGTSTP, which fails unless s.
\* After drop(), panic or not, the fields of the Tui are dropped: the
\* terminal, whose show_cursor() fails unless s, and the receiver with what
\* it holds.
ExitRestore(f, s) ==
    /\ pc = "stop"
    /\ op \in {"exit", "suspend", "drop"}
    /\ LoopEnded
    /\ f \in 0 .. Len(ExitCalls(term.raw, mouse, paste))
    /\ term' = (IF op = "drop"
                THEN TerminalDropped(
                         Effect(term, ExitCalls(term.raw, mouse, paste), f), s)
                ELSE Effect(term, ExitCalls(term.raw, mouse, paste), f))
    /\ hidden_cursor' = (IF op = "drop" /\ s THEN FALSE ELSE hidden_cursor)
    /\ calls' = Issued(ExitCalls(term.raw, mouse, paste), f)
    /\ result' = (IF f = 0 /\ (op = "suspend" => s) THEN "ok" ELSE "err")
    /\ pc' = AfterExit(op, f)
    /\ event_queue' = (IF op = "drop" THEN <<>> ELSE event_queue)
    /\ counter' = 0
    /\ UNCHANGED <<facade, config, nsent, nrecv, returned, fresh, sender,
                   input, pumps, op>>

\* -------------------------------------------------------------------- draw

\* How a draw ends: it succeeds, it fails before it comes to the cursor (the
\* resize, the frame, the flush), or it fails after it.
DrawOutcomes == {"ok", "early", "late"}

\* Terminal::draw, which a Tui hands out through DerefMut and TuiEnum::draw
\* calls: it renders the frame and then hides the cursor, or shows it when
\* the frame has set its position (c), and notes which.  It stops at the
\* call that fails.
Draw(c, o) ==
    /\ pc = "idle"
    /\ o \in DrawOutcomes
    /\ term' = (IF o = "early" THEN term
                ELSE [term EXCEPT !.cursor_hidden = ~c])
    /\ hidden_cursor' = (IF o = "early" THEN hidden_cursor ELSE ~c)
    /\ op' = "draw"
    /\ result' = (IF o = "ok" THEN "ok" ELSE "err")
    /\ UNCHANGED <<facade, config, calls, channel, input, pumps, pc, counter>>

\* -------------------------------------------------------------------- next

\* A receiver that hands out the newest event.
RecvNewest(q) == q[Len(q)]

\* UnboundedReceiver::recv: the oldest event of the channel, which leaves it.
Recv(q) == Head(q)

Rest(q) == Tail(q)

\* event_rx.recv().await: the oldest event; with the channel empty it waits
\* while a sender is left and returns None, which next() turns into its
\* error, once none is.
Receive ==
    /\ pc = "idle"
    /\ IF event_queue # <<>>
       THEN /\ returned' = Recv(event_queue).seq
            /\ event_queue' = Rest(event_queue)
            /\ nrecv' = nrecv + 1
            /\ fresh' = FALSE
            /\ UNCHANGED caller
       ELSE /\ Senders = 0
            /\ op' = "next"
            /\ result' = "closed"
            /\ UNCHANGED <<pc, counter, event_queue, nrecv, returned, fresh>>
    /\ UNCHANGED <<config, terminal, nsent, sender, input, pumps>>

\* next() on the Tui itself.
NextEvent == Receive /\ UNCHANGED facade

\* --------------------------------------------------------------- the tasks

\* UnboundedSender::send returns Err once the receiver is gone.
SendFails(es) == es # <<>> /\ ~RxOpen

\* UnboundedSender::send: the events join the end of the channel.  seq
\* records the send number of each.
Push(q, es, n) ==
    q \o [k \in 1 .. Len(es) |-> [evt |-> es[k], seq |-> n + k]]

\* _event_tx.send(e) by task p, for each event of es.
Send(p, es) ==
    IF SendFails(es)
    THEN UNCHANGED <<event_queue, nsent, sender>>
    ELSE /\ nsent + Len(es) <= MaxSent
         /\ event_queue' = Push(event_queue, es, nsent)
         /\ nsent' = nsent + Len(es)
         /\ sender' = IF es = <<>> THEN sender ELSE p

\* .unwrap() of the send by task p: a failed send panics, which ends the
\* task; after a send that succeeded the tasks are as ts.
Unwrap(p, es, ts) ==
    IF SendFails(es) THEN [tasks EXCEPT ![p].pc = "panicked"] ELSE ts

\* The placeholder task of Tui::new runs: `async {}` returns at once.
PlaceholderRun ==
    /\ tasks[0].pc = "spawned"
    /\ ~tasks[0].aborted
    /\ tasks' = [tasks EXCEPT ![0].pc = "finished"]
    /\ UNCHANGED <<facade, config, terminal, channel, input, task,
                   cancellation_token, cancelled, caller>>

\* The prologue of the pump panics before it sends: EventStream::new()
\* without an input source, or tokio::time::interval with a period of zero.
ProloguePanics(p) == ~source \/ ~tasks[p].timers

\* The pump's prologue: the reader and the intervals, then send(Init).
PumpInit(p) ==
    /\ tasks[p].pc = "spawned"
    /\ ~tasks[p].aborted
    /\ IF ProloguePanics(p)
       THEN /\ tasks' = [tasks EXCEPT ![p].pc = "panicked"]
            /\ UNCHANGED <<event_queue, nsent, sender>>
       ELSE /\ Send(p, <<EvInit>>)
            /\ tasks' = Unwrap(p, <<EvInit>>, [tasks EXCEPT ![p].pc = "loop"])
    /\ UNCHANGED <<facade, config, terminal, nrecv, returned, fresh, input, task,
                   cancellation_token, cancelled, caller>>

\* A cancelled branch that sends a closing event before it breaks.
PumpCancelledSends(p) ==
    /\ tasks[p].pc = "loop"
    /\ ~tasks[p].aborted
    /\ tasks[p].token \in cancelled
    /\ Send(p, <<EvError>>)
    /\ tasks' = Unwrap(p, <<EvError>>, [tasks EXCEPT ![p].pc = "finished"])
    /\ UNCHANGED <<facade, config, terminal, nrecv, returned, fresh, input, task,
                   cancellation_token, cancelled, caller>>

\* A cancelled branch that waits on the session's token, not on the clone
\* the task was given.
PumpCancelledSessionToken(p) ==
    /\ tasks[p].pc = "loop"
    /\ ~tasks[p].aborted
    /\ cancellation_token \in cancelled
    /\ tasks' = [tasks EXCEPT ![p].pc = "finished"]
    /\ UNCHANGED <<facade, config, terminal, channel, input, task,
                   cancellation_token, cancelled, caller>>

\* select!: `_cancellation_token.cancelled() => break`.
PumpCancelled(p) ==
    /\ tasks[p].pc = "loop"
    /\ ~tasks[p].aborted
    /\ tasks[p].token \in cancelled
    /\ tasks' = [tasks EXCEPT ![p].pc = "finished"]
    /\ UNCHANGED <<facade, config, terminal, channel, input, task,
                   cancellation_token, cancelled, caller>>

\* A crossterm_event branch that leaves the loop on an input error.
PumpInputErrorBreaks(p) ==
    /\ tasks[p].pc = "loop"
    /\ ~tasks[p].aborted
    /\ input # <<>>
    /\ Send(p, MapEvent(Head(input)))
    /\ input' = Tail(input)
    /\ tasks' = Unwrap(p, MapEvent(Head(input)),
                       IF Head(input).type = "Err"
                       THEN [tasks EXCEPT ![p].pc = "finished"]
                       ELSE tasks)
    /\ UNCHANGED <<facade, config, terminal, nrecv, returned, fresh, task,
                   cancellation_token, cancelled, caller>>

\* select!: `maybe_event = crossterm_event => match maybe_event {...}`.
PumpInput(p) ==
    /\ tasks[p].pc = "loop"
    /\ ~tasks[p].aborted
    /\ input # <<>>
    /\ Send(p, MapEvent(Head(input)))
    /\ tasks' = Unwrap(p, MapEvent(Head(input)), tasks)
    /\ input' = Tail(input)
    /\ UNCHANGED <<facade, config, terminal, nrecv, returned, fresh, task,
                   cancellation_token, cancelled, caller>>

\* select!: `_ = tick_delay => send(Tick)`.
PumpTick(p) ==
    /\ tasks[p].pc = "loop"
    /\ ~tasks[p].aborted
    /\ Send(p, <<EvTick>>)
    /\ tasks' = Unwrap(p, <<EvTick>>, tasks)
    /\ UNCHANGED <<facade, config, terminal, nrecv, returned, fresh, input, task,
                   cancellation_token, cancelled, caller>>

\* select!: `_ = render_delay => send(Render)`.
PumpRender(p) ==
    /\ tasks[p].pc = "loop"
    /\ ~tasks[p].aborted
    /\ Send(p, <<EvRender>>)
    /\ tasks' = Unwrap(p, <<EvRender>>, tasks)
    /\ UNCHANGED <<facade, config, terminal, nrecv, returned, fresh, input, task,
                   cancellation_token, cancelled, caller>>

\* The runtime drops a task that abort() marked: it is not polled again.
TaskAborted(i) ==
    /\ Alive(i)
    /\ tasks[i].aborted
    /\ tasks' = [tasks EXCEPT ![i].pc = "aborted"]
    /\ UNCHANGED <<facade, config, terminal, channel, input, task,
                   cancellation_token, cancelled, caller>>

\* The terminal delivers one raw input item.
UserInput(r) ==
    /\ Len(input) < MaxInput
    /\ input' = Append(input, r)
    /\ UNCHANGED <<facade, config, terminal, channel, pumps, caller>>

\* -------------------------------------------------------------- the facade

\* TestTui holds a terminal over a TestBackend and nothing else: no channel,
\* no task, no token.
InitTest ==
    /\ tui = "Test"
    /\ out = <<>>
    /\ source = TRUE
    /\ mouse = FALSE
    /\ paste = FALSE
    /\ tick_rate = Rate(DefaultTickRate, 0)
    /\ frame_rate = Rate(DefaultFrameRate, 0)
    /\ term = OriginalMode
    /\ hidden_cursor = FALSE
    /\ task = 0
    /\ cancellation_token = 0
    /\ cancelled = {}
    /\ tasks = [i \in TaskIds |-> Unspawned]
    /\ event_queue = <<>>
    /\ nsent = 0
    /\ nrecv = 0
    /\ input = <<>>
    /\ pc = "idle"
    /\ op = "none"
    /\ counter = 0
    /\ result = "ok"
    /\ calls = <<>>
    /\ fresh = FALSE
    /\ returned = 0
    /\ sender = 0

\* TuiEnum::from(Tui) or TuiEnum::from(TestTui).
InitFacade == Init \/ InitTest \/ InitNoSource

\* `TuiEnum::Test(_) => Ok(())` of operation o.
InertOk(o) ==
    /\ pc = "idle"
    /\ op' = o
    /\ result' = "ok"
    /\ UNCHANGED <<facade, config, terminal, channel, input, pumps, pc,
                   counter>>

\* A facade that hands enter() to the real session whatever it holds.
FacadeEnterAlwaysReal(f) == Enter(f)

\* TuiEnum::enter.
FacadeEnter(f) == IF tui = "Test" THEN InertOk("enter") ELSE Enter(f)

\* TuiEnum::exit, up to the head of the loop of stop() in the real exit().
FacadeExit == IF tui = "Test" THEN InertOk("exit") ELSE StopBegin("exit")

\* TuiEnum::draw: the inert session draws into its TestBackend, in memory.
FacadeDraw(c, o) == IF tui = "Test" THEN InertOk("draw") ELSE Draw(c, o)

\* TuiEnum::next.
FacadeNext ==
    IF tui = "Test"
    THEN /\ pc = "idle"
         /\ op' = "next"
         /\ result' = "ok"
         /\ out' = <<EvTick>>
         /\ UNCHANGED <<tui, source, config, terminal, channel, input,
                        pumps, pc, counter>>
    ELSE /\ Receive
         /\ out' = (IF event_queue # <<>>
                    THEN <<Recv(event_queue).evt>>
                    ELSE <<>>)
         /\ UNCHANGED <<tui, source>>

\* ---------------------------------------------------------- specifications

\* The session's life: enter, next, exit and stop with the polling loop of
\* stop(), any number of times and in any order, against its tasks, with the
\* tick timer as the event source.  The mode calls succeed.
Next ==
    \/ Enter(0)
    \/ \E o \in {"exit", "stop"} : StopBegin(o)
    \/ StopSleep
    \/ StopPoll
    \/ StopReturn
    \/ ExitRestore(0, TRUE)
    \/ NextEvent
    \/ PlaceholderRun
    \/ \E p \in PumpIds : PumpInit(p)
    \/ \E p \in PumpIds : PumpCancelled(p)
    \/ \E p \in PumpIds : PumpTick(p)
    \/ \E i \in TaskIds : TaskAborted(i)

Spec == Init /\ [][Next]_vars

\* The pump at its select!: both timers at any rates, a failing input source
\* and the cancellation raised by cancel() and start().
NextPump ==
    \/ \E r \in Rates : TickRate(r)
    \/ \E r \in Rates : FrameRate(r)
    \/ Enter(0)
    \/ Start
    \/ Cancel
    \/ NextEvent
    \/ \E r \in FewInputs : UserInput(r)
    \/ PlaceholderRun
    \/ \E p \in PumpIds : PumpInit(p)
    \/ \E p \in PumpIds : PumpCancelled(p)
    \/ \E p \in PumpIds : PumpInput(p)
    \/ \E p \in PumpIds : PumpTick(p)
    \/ \E p \in PumpIds : PumpRender(p)

PumpSpec == Init /\ [][NextPump]_vars

\* select! starts its poll at a random branch, so a branch that stays ready
\* is taken in the end: the cancelled branch of each pump is weakly fair.
FairPumpSpec == PumpSpec /\ \A p \in PumpIds : WF_vars(PumpCancelled(p))

\* The loop of stop(), pass by pass, against the tasks: stop() and exit()
\* on a session entered any number of times, the tasks running during any
\* sleep or not at all.
NextStop ==
    \/ Enter(0)
    \/ \E o \in {"exit", "stop"} : StopBegin(o)
    \/ StopSleep
    \/ StopPoll
    \/ StopReturn
    \/ ExitRestore(0, TRUE)
    \/ PlaceholderRun
    \/ \E p \in PumpIds : PumpInit(p)
    \/ \E p \in PumpIds : PumpCancelled(p)
    \/ \E i \in TaskIds : TaskAborted(i)

StopSpec == Init /\ [][NextStop]_vars

\* The periods: start() and the prologue of the pump at rates from either
\* end of the range, with the tick timer as the event source.
NextRate ==
    \/ \E r \in TickRates : TickRate(r)
    \/ \E r \in FrameRates : FrameRate(r)
    \/ Enter(0)
    \/ Start
    \/ Cancel
    \/ NextEvent
    \/ PlaceholderRun
    \/ \E p \in PumpIds : PumpInit(p)
    \/ \E p \in PumpIds : PumpCancelled(p)
    \/ \E p \in PumpIds : PumpTick(p)

RateSpec == Init /\ [][NextRate]_vars

\* The pump against every raw input item.
NextInput ==
    \/ Enter(0)
    \/ NextEvent
    \/ \E r \in AllInputs : UserInput(r)
    \/ PlaceholderRun
    \/ \E p \in PumpIds : PumpInit(p)
    \/ \E p \in PumpIds : PumpCancelled(p)
    \/ \E p \in PumpIds : PumpInput(p)

InputSpec == Init /\ [][NextInput]_vars

\* The terminal: the capture builders, enter, draw and exit with every mode
\* call able to fail, the loop of stop() pass by pass against the tasks.
NextTerm ==
    \/ \E b \in BOOLEAN : Mouse(b)
    \/ \E b \in BOOLEAN : Paste(b)
    \/ \E f \in 0 .. Len(EnterCalls(TRUE, TRUE)) : Enter(f)
    \/ \E c \in BOOLEAN, o \in DrawOutcomes : Draw(c, o)
    \/ StopBegin("exit")
    \/ StopSleep
    \/ StopPoll
    \/ \E f \in 0 .. Len(ExitCalls(TRUE, TRUE, TRUE)) : ExitRestore(f, TRUE)
    \/ PlaceholderRun
    \/ \E p \in PumpIds : PumpInit(p)
    \/ \E p \in PumpIds : PumpCancelled(p)
    \/ \E i \in TaskIds : TaskAborted(i)

TermSpec == Init /\ [][NextTerm]_vars

\* The terminal under the calls that set its mode and no other: the mouse
\* builder, enter/resume and exit/suspend with every mode call and the
\* signal able to fail.
NextSuspend ==
    \/ \E b \in BOOLEAN : Mouse(b)
    \/ \E f \in 0 .. Len(EnterCalls(TRUE, TRUE)) : Enter(f)
    \/ \E f \in 0 .. Len(EnterCalls(TRUE, TRUE)) : Resume(f)
    \/ \E o \in {"exit", "suspend"} : StopBegin(o)
    \/ StopSleep
    \/ StopPoll
    \/ \E f \in 0 .. Len(ExitCalls(TRUE, TRUE, TRUE)), s \in BOOLEAN :
         ExitRestore(f, s)
    \/ PlaceholderRun
    \/ \E p \in PumpIds : PumpInit(p)
    \/ \E p \in PumpIds : PumpCancelled(p)
    \/ \E i \in TaskIds : TaskAborted(i)

SuspendSpec == Init /\ [][NextSuspend]_vars

\* enter() and resume() at the default tick rate and at one that has no
\* period, every mode call able to fail, before and after an exit().
NextEnter ==
    \/ \E r \in TickRates : TickRate(r)
    \/ \E b \in BOOLEAN : Mouse(b)
    \/ \E b \in BOOLEAN : Paste(b)
    \/ \E f \in 0 .. Len(EnterCalls(TRUE, TRUE)) : Enter(f)
    \/ \E f \in 0 .. Len(EnterCalls(TRUE, TRUE)) : Resume(f)
    \/ StopBegin("exit")
    \/ StopSleep
    \/ StopPoll
    \/ ExitRestore(0, TRUE)
    \/ PlaceholderRun
    \/ \E p \in PumpIds : PumpInit(p)
    \/ \E p \in PumpIds : PumpCancelled(p)
    \/ \E i \in TaskIds : TaskAborted(i)

EnterSpec == Init /\ [][NextEnter]_vars

\* The restoring call that fails in an exit() of the life specification:
\* none, the flush, or the call after the flush.
LifeFailures == {0, 1, 2}

\* The session from construction to destruction: enter, draw, next, exit and
\* drop with a restoring call able to fail, the capture flag switched at any
\* time, and the tasks running on after the session is gone.
NextLife ==
    \/ \E b \in BOOLEAN : Mouse(b)
    \/ Enter(0)
    \/ \E c \in BOOLEAN, o \in DrawOutcomes : Draw(c, o)
    \/ StopBegin("exit")
    \/ Drop
    \/ StopSleep
    \/ StopPoll
    \/ \E f \in LifeFailures, s \in BOOLEAN : ExitRestore(f, s)
    \/ NextEvent
    \/ PlaceholderRun
    \/ \E p \in PumpIds : PumpInit(p)
    \/ \E p \in PumpIds : PumpCancelled(p)
    \/ \E i \in TaskIds : TaskAborted(i)

LifeSpec == Init /\ [][NextLife]_vars

\* The destruction of a session in any state it rests in: never entered,
\* entered with either capture on or off, the flags switched since, after a
\* draw; every restoring call of the implicit exit() able to fail, and the
\* Terminal's own show_cursor() as well.
NextDrop ==
    \/ \E b \in BOOLEAN : Mouse(b)
    \/ \E b \in BOOLEAN : Paste(b)
    \/ Enter(0)
    \/ \E c \in BOOLEAN, o \in DrawOutcomes : Draw(c, o)
    \/ Drop
    \/ StopSleep
    \/ StopPoll
    \/ \E f \in 0 .. Len(ExitCalls(TRUE, TRUE, TRUE)), s \in BOOLEAN :
         ExitRestore(f, s)
    \/ PlaceholderRun
    \/ \E p \in PumpIds : PumpInit(p)
    \/ \E p \in PumpIds : PumpCancelled(p)
    \/ \E i \in TaskIds : TaskAborted(i)

DropSpec == Init /\ [][NextDrop]_vars

\* The facade over either session, the real one with and without an input
\* source: its enter, exit, next and draw, and what the real session's
\* exit() and tasks go on to do.
NextFacade ==
    \/ FacadeEnter(0)
    \/ FacadeExit
    \/ FacadeNext
    \/ \E c \in BOOLEAN, o \in DrawOutcomes : FacadeDraw(c, o)
    \/ StopSleep
    \/ StopPoll
    \/ ExitRestore(0, TRUE)
    \/ PlaceholderRun
    \/ \E p \in PumpIds : PumpInit(p)
    \/ \E p \in PumpIds : PumpCancelled(p)
    \/ \E p \in PumpIds : PumpTick(p)
    \/ \E i \in TaskIds : TaskAborted(i)

FacadeSpec == InitFacade /\ [][NextFacade]_vars

\* ------------------------------------------------------------------ claims

\* The caller's step that returns from exit() (or from the exit() of
\* suspend()), and the one that returns from a direct stop().
ExitReturns == pc = "stop" /\ op \in {"exit", "suspend"} /\ pc' = "idle"

StopReturns == pc = "stop" /\ op = "stop" /\ pc' = "idle"

\* C1: whenever exit() returns success the terminal is back in its original
\* mode: raw mode off, alternate screen left, cursor shown, mouse capture and
\* bracketed paste off.
C1_ExitOkRestoresTerminal ==
    [][(ExitReturns /\ op = "exit" /\ result' = "ok") => term' = OriginalMode]_vars

\* The pump tasks that are alive, and the session being active: entered
\* (the mode calls of Spec succeed, so raw mode is on) and not in exit().
AlivePumps == {p \in PumpIds : Alive(p)}

Active == term.raw /\ op = "enter"

\* C2: at most one pump task of the session is alive at any time, and exactly
\* one while the session is active.
C2_OnePumpAlive ==
    /\ Cardinality(AlivePumps) <= 1
    /\ Active => Cardinality(AlivePumps) = 1

\* C3: after enter() on a session that is not entered (the first entry or a
\* re-entry after exit()), the first event the following next() returns is
\* Init.
C3_FirstEventIsInit ==
    [][(fresh /\ nrecv' = nrecv + 1) => Recv(event_queue).evt = EvInit]_vars

\* C4: exit() while raw mode is not enabled returns success and issues no
\* mode call at all; it changes nothing but what stop() did to the pump.
C4_ExitOutsideRawModeIsNoop ==
    [][(ExitReturns /\ op = "exit" /\ ~term.raw) =>
          /\ result' = "ok"
          /\ calls' = <<>>
          /\ term' = term
          /\ UNCHANGED <<config, channel, input, pumps>>]_vars

\* An exit() outside raw mode has returned: it issued nothing, and only an
\* exit() that found raw mode off issues nothing.
C4_Witness ==
    /\ pc = "idle"
    /\ op = "exit"
    /\ result = "ok"
    /\ calls = <<>>
    /\ term = OriginalMode

\* C5: stop() terminates and returns success however the pump behaves: at
\* most 101 sleeps of 1 ms, abort() only after more than 50 of them on a task
\* that has not ended, giving up after more than 100; in the loop the caller
\* can always take its next step, and each pass counts one up.
C5_StopBounded ==
    /\ [](/\ pc = "sleep" =>
               /\ counter <= GiveUpLimit
               /\ ENABLED (StopPoll /\ counter' = counter + 1)
          /\ pc = "stop" =>
               /\ counter <= GiveUpLimit + 1
               /\ IF Finished(task) \/ counter > GiveUpLimit
                  THEN op = "stop" => ENABLED StopReturn
                  ELSE ENABLED StopSleep)
    /\ [][/\ counter' # counter /\ pc = "sleep" =>
               (counter' = counter + 1 /\ pc' = "stop")
          /\ (pc = "stop" /\ pc' = "sleep") =>
               (~Finished(task) /\ counter <= GiveUpLimit)
          /\ (tasks'[task].aborted /\ ~tasks[task].aborted) =>
               (pc = "sleep" /\ counter' > GraceLimit /\ ~Finished(task))
          /\ StopReturns =>
               (result' = "ok" /\ (Finished(task) \/ counter > GiveUpLimit))
         ]_vars

\* stop() gave up: 101 sleeps, the task aborted and still not finished.
C5_Witness ==
    /\ pc = "stop"
    /\ op = "stop"
    /\ counter = GiveUpLimit + 1
    /\ ~Finished(task)
    /\ tasks[task].aborted

\* A step in which task p sends, and one in which a pump consumes the raw
\* input item at the head of the stream.
Sends(p) == nsent' > nsent /\ sender' = p

ConsumesInput == input # <<>> /\ input' = Tail(input) /\ nrecv' = nrecv

\* The events a step added to the channel.
Added ==
    [k \in 1 .. (Len(event_queue') - Len(event_queue)) |->
       event_queue'[Len(event_queue) + k].evt]

\* C6 as claimed: once its token is raised, a pump in its loop sends no
\* further event, whatever else is ready at its wait point.
C6_NoEventOnceTokenRaised ==
    [][\A p \in PumpIds :
         (Sends(p) /\ tasks[p].pc = "loop") =>
           tasks[p].token \notin cancelled]_vars

\* C6: once a pump has taken its cancelled branch it has left its loop for
\* good and sends no further event, and taking the branch needs the pump's
\* own token raised and sends nothing.  Between the raising of the token and
\* that step, select! may take another ready branch, and the pump may send.
C6_NoEventAfterCancelledBranch ==
    [][\A p \in PumpIds :
         /\ tasks[p].pc = "finished" =>
              (tasks'[p].pc = "finished" /\ ~Sends(p))
         /\ (tasks[p].pc = "loop" /\ tasks'[p].pc = "finished") =>
              /\ tasks[p].token \in cancelled
              /\ event_queue' = event_queue
              /\ nsent' = nsent]_vars

\* A pump sent events and then took its cancelled branch.
C6_Witness ==
    \E p \in PumpIds :
      /\ tasks[p].pc = "finished"
      /\ tasks[p].token \in cancelled
      /\ sender = p
      /\ Len(event_queue) >= 2

\* C7: the channel is FIFO without loss or duplication: the events in it are
\* the sends nrecv + 1 .. nsent in send order, and the event next() returned
\* last is send number nrecv, so the events returned are the first nrecv
\* events sent, in send order.
C7_Fifo ==
    /\ nrecv + Len(event_queue) = nsent
    /\ \A i \in 1 .. Len(event_queue) : event_queue[i].seq = nrecv + i
    /\ returned = nrecv

\* Two events were returned while later ones of other kinds wait.
C7_Witness ==
    /\ nrecv = 2
    /\ Len(event_queue) >= 1
    /\ event_queue[1].evt # EvInit

\* The mapping table of the claim.
C8_Table(raw) ==
    IF raw.type = "Key"
    THEN IF raw.kind = "Press" THEN <<Ev("Key", raw.data)>> ELSE <<>>
    ELSE IF raw.type = "Mouse" THEN <<Ev("Mouse", raw.data)>>
    ELSE IF raw.type = "Resize" THEN <<Ev("Resize", raw.data)>>
    ELSE IF raw.type = "FocusLost" THEN <<Ev("FocusLost", <<>>)>>
    ELSE IF raw.type = "FocusGained" THEN <<Ev("FocusGained", <<>>)>>
    ELSE IF raw.type = "Paste" THEN <<Ev("Paste", raw.data)>>
    ELSE IF raw.type = "Err" THEN <<EvError>>
    ELSE <<>>

\* C8: for every raw input item the pump takes, it adds to the channel
\* exactly the event of the table, after the events already there, and none
\* for a key item that is not a press or for the end of the stream.
C8_InputMapping ==
    [][ConsumesInput =>
          /\ SubSeq(event_queue', 1, Len(event_queue)) = event_queue
          /\ Added = C8_Table(Head(input))]_vars

\* A key press went through as Key while a key release is pending.
C8_Witness ==
    /\ input # <<>>
    /\ Head(input) = RawKeyRelease
    /\ \E i \in 1 .. Len(event_queue) : event_queue[i].evt.type = "Key"

\* C9: an input error makes the pump send exactly one Error and leaves every
\* task as it was, the pump in its loop; and a pump in its loop that was not
\* aborted can send Tick (while the run's sends last).
C9_ErrorKeepsPumpRunning ==
    /\ [][(ConsumesInput /\ Head(input) = RawErr) =>
            /\ Added = <<EvError>>
            /\ nsent' = nsent + 1
            /\ tasks' = tasks
            /\ tasks[sender'].pc = "loop"]_vars
    /\ [](\A p \in PumpIds :
            (tasks[p].pc = "loop" /\ ~tasks[p].aborted /\ nsent < MaxSent) =>
              ENABLED PumpTick(p))

\* The only pump sent Error and then Tick.
C9_Witness ==
    /\ tasks[2].pc = "unspawned"
    /\ tasks[1].pc = "loop"
    /\ Len(event_queue) >= 2
    /\ event_queue[Len(event_queue) - 1].evt = EvError
    /\ event_queue[Len(event_queue)].evt = EvTick

\* C10: a pump in its loop whose token is raised takes its cancelled branch
\* and ends, whatever the timers and the input do.
C10_CancellationNotStarved ==
    \A p \in PumpIds :
      (tasks[p].pc = "loop" /\ tasks[p].token \in cancelled)
        ~> (tasks[p].pc = "finished")

\* A replaced pump, whose token start() raised, has ended while the pump
\* that replaced it runs on.
C10_Witness ==
    /\ tasks[1].pc = "finished"
    /\ tasks[2].pc = "loop"
    /\ tasks[2].token \notin cancelled
    /\ sender = 1

\* C11: while the session exists the channel has a sender, the session's
\* own, so next() never returns the delivery error: with events queued it
\* returns the oldest, with none it waits.
C11_SenderNeverClosed ==
    /\ result # "closed"
    /\ RxOpen => Senders >= 1
    /\ (pc = "idle" /\ event_queue = <<>>) => ~ENABLED NextEvent
    /\ (pc = "idle" /\ event_queue # <<>>) => ENABLED NextEvent

\* After an exit() every pump has ended and every event was returned: the
\* session's sender is the only one left, and next() waits.
C11_Witness ==
    /\ pc = "idle"
    /\ op = "exit"
    /\ task > 0
    /\ nrecv > 0
    /\ event_queue = <<>>
    /\ Senders = 1

\* The caller's step that ends drop().
DropReturns ==
    pc = "stop" /\ op = "drop" /\ pc' \in {"dropped", "panicked"}

\* C12: a session can be destroyed in any state it rests in, and destroying
\* it runs exit(): the current token is raised and stop() has run its loop
\* before the session is gone; if raw mode is on the restoring calls are
\* issued, flush first, and unless one of them fails the terminal is
\* restored, back in its original mode; if raw mode is off nothing is issued
\* and the mode stays as it is, but for the cursor a draw had hidden, which
\* the terminal shows when it goes; a failing call ends in a panic, never in
\* a silent return.
C12_DropRunsExit ==
    /\ [](pc = "idle" => ENABLED Drop)
    /\ [][/\ (pc' \in {"dropped", "panicked"} /\ pc # pc') => DropReturns
          /\ DropReturns =>
               /\ cancellation_token \in cancelled
               /\ Finished(task) \/ counter > GiveUpLimit
               /\ pc' \in {"dropped", "panicked"}
               /\ result' = "err" <=> pc' = "panicked"
               /\ result' = "ok" <=> pc' = "dropped"
               /\ IF term.raw
                  THEN /\ calls' # <<>>
                       /\ calls'[1] = "flush"
                       /\ result' = "ok" => term' = OriginalMode
                  ELSE /\ calls' = <<>>
                       /\ \E s \in BOOLEAN : term' = TerminalDropped(term, s)
                       /\ result' = "ok"
         ]_vars

\* How many times call c is in a log of calls.
Count(log, c) == Cardinality({i \in 1 .. Len(log) : log[i] = c})

\* The caller's step that is an enter() (or resume()) returning Ok: the one
\* that starts a pump with the mode calls behind it.
EnterOk == pc = "idle" /\ task' # task /\ op' = "enter" /\ result' = "ok"

\* C13: an enter() that succeeds issues the mouse-capture enable call once
\* if mouse is configured on and not at all if it is off, and the exit() that
\* follows it (it finds raw mode on) and succeeds issues the disable call
\* once if mouse is on and not at all if it is off; the same for bracketed
\* paste with the paste flag.  No call is issued twice by either.
C13_CaptureCallsOnce ==
    [][/\ EnterOk =>
            /\ Count(calls', "EnableMouseCapture") = (IF mouse THEN 1 ELSE 0)
            /\ Count(calls', "EnableBracketedPaste") = (IF paste THEN 1 ELSE 0)
            /\ Count(calls', "DisableMouseCapture") = 0
            /\ Count(calls', "DisableBracketedPaste") = 0
            /\ mouse' = mouse
            /\ paste' = paste
       /\ (ExitReturns /\ op = "exit" /\ term.raw /\ result' = "ok") =>
            /\ Count(calls', "DisableMouseCapture") = (IF mouse THEN 1 ELSE 0)
            /\ Count(calls', "DisableBracketedPaste") = (IF paste THEN 1 ELSE 0)
            /\ Count(calls', "EnableMouseCapture") = 0
            /\ Count(calls', "EnableBracketedPaste") = 0
            /\ mouse' = mouse
            /\ paste' = paste
      ]_vars

\* With mouse on and paste off, enter() and then exit() succeeded: capture
\* is off again, and the exit() issued one mouse disable and no paste one.
C13_Witness ==
    /\ pc = "idle"
    /\ op = "exit"
    /\ result = "ok"
    /\ mouse
    /\ ~paste
    /\ term = OriginalMode
    /\ Count(calls, "DisableMouseCapture") = 1
    /\ Count(calls, "DisableBracketedPaste") = 0

\* A step of the real session and its tasks, as the session takes it when
\* it is used without the facade; next() hands its event to the caller.
RealStep ==
    \/ Enter(0)
    \/ StopBegin("exit")
    \/ \E c \in BOOLEAN, o \in DrawOutcomes : Draw(c, o)
    \/ /\ Receive
       /\ event_queue # <<>>
       /\ out' = <<Recv(event_queue).evt>>
       /\ UNCHANGED <<tui, source>>
    \/ StopSleep
    \/ StopPoll
    \/ ExitRestore(0, TRUE)
    \/ PlaceholderRun
    \/ \E p \in PumpIds : PumpInit(p) \/ PumpCancelled(p) \/ PumpTick(p)
    \/ \E i \in TaskIds : TaskAborted(i)

\* C14: through the facade over the inert session every operation is always
\* possible and returns success at once, none has any effect on terminal,
\* tasks or channel, and next() returns Tick; through the facade over the
\* real session every step is a step of the real session's own operation,
\* and next() returns the event the real next() received.
C14_FacadeRoutes ==
    /\ [](tui = "Test" =>
            /\ ENABLED FacadeEnter(0)
            /\ ENABLED FacadeExit
            /\ ENABLED FacadeNext
            /\ \A c \in BOOLEAN : ENABLED FacadeDraw(c, "ok")
            /\ result = "ok"
            /\ pc = "idle"
            /\ term = OriginalMode
            /\ event_queue = <<>>
            /\ \A i \in TaskIds : tasks[i] = Unspawned
            /\ out \in {<<>>, <<EvTick>>}
            /\ op = "next" => out = <<EvTick>>)
    /\ [][/\ tui' = tui
          /\ tui = "Test" =>
               /\ op' \in {"enter", "exit", "next", "draw"}
               /\ op' = "next" => out' = <<EvTick>>
               /\ op' # "next" => out' = out
               /\ UNCHANGED <<config, terminal, channel, input, pumps, pc,
                              counter, result>>
          /\ tui = "Crossterm" => RealStep
         ]_vars

\* Through the facade over the inert session next() returned Tick, and then
\* exit() returned success.
C14_Witness ==
    /\ tui = "Test"
    /\ op = "exit"
    /\ result = "ok"
    /\ out = <<EvTick>>

\* C15: when exit() returns no pump task of the session is alive, and once
\* exit() has returned no event is appended to the channel (until the
\* caller's next operation).
C15_ExitStopsPumps ==
    [][/\ ExitReturns => \A p \in PumpIds : ~Alive(p)
       /\ (pc = "idle" /\ op = "exit") => nsent' = nsent]_vars

\* C16: no pump sends after the receiving end of the channel was dropped:
\* every send finds the receiver alive, so no pump task panics on a failed
\* send.
C16_NoSendAfterReceiverDropped ==
    [][\A p \in PumpIds :
         (tasks'[p].pc = "panicked" /\ tasks[p].pc # "panicked") =>
           (tasks[p].pc = "spawned" /\ ProloguePanics(p))]_vars

\* The pump tasks spawned so far.
Spawned == {p \in PumpIds : tasks[p].pc # "unspawned"}

\* C17: every start() raises the token the session held and gives the new
\* pump a clone of a token no earlier pump holds and that is not raised, which
\* becomes the session's; a raised token stays raised, and whatever raises a
\* token raises the session's current one only; so the only pump whose token
\* is not raised is the current one, holding the session's current token.
C17_FreshCancellationScope ==
    /\ [](\A p \in Spawned :
            /\ \A q \in Spawned : tasks[p].token = tasks[q].token => p = q
            /\ tasks[p].token \notin cancelled =>
                 (p = task /\ tasks[p].token = cancellation_token))
    /\ [][/\ cancelled \subseteq cancelled'
          /\ cancelled' \subseteq cancelled \cup {cancellation_token}
          /\ task' # task =>
               /\ Spawned' = Spawned \cup {task'}
               /\ task' \notin Spawned
               /\ cancellation_token \in cancelled'
               /\ cancellation_token' \notin cancelled'
               /\ tasks'[task'].token = cancellation_token'
               /\ \A q \in Spawned : tasks'[q].token # cancellation_token'
          /\ task' = task => cancellation_token' = cancellation_token
          /\ (result' = "panic" /\ result # "panic") => UNCHANGED pumps
         ]_vars

\* Two pumps run: start() raised the token of the first, the second holds
\* the session's token, not raised; then cancel() raised that one too.
C17_Witness ==
    /\ task = 2
    /\ tasks[1].pc = "loop"
    /\ tasks[2].pc = "loop"
    /\ tasks[1].token # tasks[2].token
    /\ cancelled = {0, tasks[1].token, tasks[2].token}

\* C18: every pump run emits Init: the first step a spawned pump takes
\* sends Init, and nothing else.
C18_EveryRunEmitsInit ==
    [][\A p \in PumpIds :
         (tasks[p].pc = "spawned" /\ tasks'[p].pc # "spawned") =>
           (Sends(p) /\ Added = <<EvInit>>)]_vars

\* The caller's step that is an enter() (or resume()), failed or not.
EnterStep ==
    /\ pc = "idle"
    /\ op' = "enter"
    /\ <<mouse, paste>>' = <<mouse, paste>>
    /\ <<calls, term, result, task, op>>' # <<calls, term, result, task, op>>

\* The order of the claim: the five steps, the two captures kept only if
\* their flag is on.
C19_Order ==
    SelectSeq(<<"enable_raw_mode", "EnterAlternateScreen", "Hide",
                "EnableMouseCapture", "EnableBracketedPaste">>,
              LAMBDA c : /\ c = "EnableMouseCapture" => mouse
                         /\ c = "EnableBracketedPaste" => paste)

\* C19: enter() issues its mode calls in the claim's order; if they all
\* succeed it goes on to start(), last, with every mode applied, and returns
\* Ok having started a pump, unless start() panics on a rate that has no
\* Duration, which starts none; if one fails it returns the error with the
\* calls before it applied, the failing one and the later ones not, and no
\* pump started.
C19_EnterOrder ==
    [][EnterStep =>
         /\ \E n \in 1 .. Len(C19_Order) : calls' = SubSeq(C19_Order, 1, n)
         /\ result' \in {"ok", "err", "panic"}
         /\ result' = "panic" =>
              /\ StartPanics
              /\ calls' = C19_Order
              /\ term' = RunCalls(term, C19_Order, Len(C19_Order))
              /\ UNCHANGED <<pumps, channel, input>>
         /\ result' = "ok" =>
              /\ ~StartPanics
              /\ calls' = C19_Order
              /\ term' = RunCalls(term, C19_Order, Len(C19_Order))
              /\ task' # task
              /\ tasks'[task'].pc = "spawned"
              /\ tasks[task'].pc = "unspawned"
         /\ result' = "err" =>
              /\ term' = RunCalls(term, C19_Order, Len(calls') - 1)
              /\ UNCHANGED <<pumps, channel, input>>]_vars

\* enter() with mouse on failed at the mouse-capture call: raw mode,
\* alternate screen and hidden cursor are applied, the capture is not, and
\* no pump was ever started.
C19_Witness ==
    /\ pc = "idle"
    /\ op = "enter"
    /\ result = "err"
    /\ calls = <<"enable_raw_mode", "EnterAlternateScreen", "Hide",
                 "EnableMouseCapture">>
    /\ term.raw
    /\ term.alt
    /\ term.cursor_hidden
    /\ ~term.mouse_capture
    /\ task = 0

\* The order of the claim: flush, the two captures undone only if their
\* flag is on, alternate screen, cursor, raw mode last.
C20_Order ==
    SelectSeq(<<"flush", "DisableBracketedPaste", "DisableMouseCapture",
                "LeaveAlternateScreen", "Show", "disable_raw_mode">>,
              LAMBDA c : /\ c = "DisableMouseCapture" => mouse
                         /\ c = "DisableBracketedPaste" => paste)

\* C20: while exit() is in stop() it does not touch the terminal, and it
\* goes on only when the loop of stop() is over; then, if raw mode is off it
\* issues nothing, and if raw mode is on it issues its calls in the claim's
\* order from flush on: all of them, raw mode disabled last, if none fails,
\* and up to the failing one otherwise, in which case it returns the error
\* with raw mode still on, so that the next exit() starts the restoration
\* again.
C20_ExitOrder ==
    [][/\ pc' \in {"stop", "sleep"} => (term' = term /\ calls' = <<>>)
       /\ ExitReturns =>
            /\ Finished(task) \/ counter > GiveUpLimit
            /\ IF term.raw
               THEN \E n \in 1 .. Len(C20_Order) :
                      /\ calls' = SubSeq(C20_Order, 1, n)
                      /\ \/ /\ n = Len(C20_Order)
                            /\ term' = RunCalls(term, C20_Order, n)
                            /\ ~term'.raw
                            /\ op = "exit" => result' = "ok"
                         \/ /\ term' = RunCalls(term, C20_Order, n - 1)
                            /\ term'.raw
                            /\ result' = "err"
               ELSE calls' = <<>> /\ term' = term
            /\ op = "exit" =>
                 /\ result' = "ok" => ~term'.raw
                 /\ result' = "err" => (term.raw /\ term'.raw)
      ]_vars

\* exit() failed at leaving the alternate screen: it returned the error with
\* raw mode and the alternate screen still on.
C20_Witness ==
    /\ pc = "idle"
    /\ op = "exit"
    /\ result = "err"
    /\ calls = <<"flush", "LeaveAlternateScreen">>
    /\ term.raw
    /\ term.alt

====
